---- MODULE Spec2Model ----
(***************************************************************************)
(* Model of the question-answering engine of main.py / vector.py:          *)
(* the per-user rate limiter, input sanitising, the rule-based intent      *)
(* dispatch of process_question, the retrieval / web-fallback / generation *)
(* path and the error containment of get_answer.                           *)
(*                                                                         *)
(* Python strings are sequences of symbols.  A symbol is a one-character   *)
(* string, or a name in square brackets standing for one fixed literal of  *)
(* the source (a canned response, a disclaimer) that holds none of the     *)
(* characters the code searches for.                                       *)
(***************************************************************************)
EXTENDS Integers, Sequences, FiniteSets, TLC

VARIABLES clock, request_history, rl, pq, index, snippets_cache, gs,
          embedding_cache, ec, lk, tr, th, conc, ga, em, run, cli

vars == <<clock, request_history, rl, pq, index, snippets_cache, gs,
          embedding_cache, ec, lk, tr, th, conc, ga, em, run, cli>>

\* The state of the rate limiter and the orchestrator, of the retrieval
\* service, and of the embedding cache.
engineVars == <<request_history, rl, pq>>
retrievalVars == <<index, snippets_cache, gs, em>>
embeddingVars == <<embedding_cache, ec, lk>>

\* The request threads of the web server inside is_rate_limited, and what
\* their calls have done so far.
threadVars == <<th, conc>>

\* The calls in progress that the model follows step by step.
callVars == <<ga, run, cli>>

\* ------------------------------------------------------------------ bounds
\* The simulated clock advances in steps of TickSeconds, at most MaxTicks times.
MaxTicks == 3
TickSeconds == 30
\* The longest text given to truncate_to_two_sentences on its own.
MaxTextLen == 5
\* The number of cache_embedding calls followed after the cache was filled.
MaxCalls == 3

\* ------------------------------------------------------- program constants
RATE_LIMIT == 10
WINDOW == 60

Users == {"u1", "u2"}

MAX_QUESTION_LEN == 500
TOP_K == 3
\* MIN_SCORE = 0.65, in hundredths
MIN_SCORE == 65
\* search_web(query, num_results=3)
NUM_RESULTS == 3
MAX_CACHE_SIZE == 1000
CACHE_TTL == 3600

\* -------------------------------------------------------------------- text
UpperChars ==
    <<"A", "B", "C", "D", "E", "F", "G", "H", "I", "J", "K", "L", "M",
      "N", "O", "P", "Q", "R", "S", "T", "U", "V", "W", "X", "Y", "Z">>

LowerChars ==
    <<"a", "b", "c", "d", "e", "f", "g", "h", "i", "j", "k", "l", "m",
      "n", "o", "p", "q", "r", "s", "t", "u", "v", "w", "x", "y", "z">>

Whitespace == {" ", "\t", "\n", "\r"}

SetMin(S) == CHOOSE x \in S : \A y \in S : x <= y

SetMax(S) == CHOOSE x \in S : \A y \in S : x >= y

\* str.lower()
LowerChar(c) ==
    IF \E i \in 1..Len(UpperChars) : UpperChars[i] = c
    THEN LowerChars[CHOOSE i \in 1..Len(UpperChars) : UpperChars[i] = c]
    ELSE c

lower(s) == [i \in 1..Len(s) |-> LowerChar(s[i])]

\* str.strip()
Span(s, ink) == IF ink = {} THEN <<>> ELSE SubSeq(s, SetMin(ink), SetMax(ink))

strip(s) == Span(s, {i \in 1..Len(s) : s[i] \notin Whitespace})

\* str.startswith(t)
StartsWith(s, t) == Len(s) >= Len(t) /\ SubSeq(s, 1, Len(t)) = t

\* t in s
Contains(s, t) ==
    \E i \in 1..(Len(s) - Len(t) + 1) : SubSeq(s, i, i + Len(t) - 1) = t

\* sep.join(parts)
RECURSIVE Join(_, _)
Join(sep, parts) ==
    IF parts = <<>> THEN <<>>
    ELSE IF Len(parts) = 1 THEN parts[1]
    ELSE parts[1] \o sep \o Join(sep, Tail(parts))

\* sanitize_input: re.sub(r'[<>]', '', text).strip()
sanitize_input(text) == strip(SelectSeq(text, LAMBDA c : c \notin {"<", ">"}))

\* re.split(r"(?<=[\.\?\!])\s+", s): s is cut at every maximal run of
\* whitespace whose preceding character is one of . ? !
SentenceEnd == {".", "?", "!"}

RECURSIVE SkipSpace(_, _)
SkipSpace(s, i) ==
    IF i <= Len(s) /\ s[i] \in Whitespace THEN SkipSpace(s, i + 1) ELSE i

RECURSIVE SplitFrom(_, _, _, _)
SplitFrom(s, i, cur, acc) ==
    IF i > Len(s) THEN Append(acc, cur)
    ELSE IF s[i] \in Whitespace /\ i > 1 /\ s[i - 1] \in SentenceEnd
         THEN SplitFrom(s, SkipSpace(s, i), <<>>, Append(acc, cur))
         ELSE SplitFrom(s, i + 1, Append(cur, s[i]), acc)

SplitSentences(s) == SplitFrom(s, 1, <<>>, <<>>)

\* parts[:2] replaced by parts.
FirstAll(parts) == parts

\* truncate_to_two_sentences
FirstTwo(parts) == SubSeq(parts, 1, IF Len(parts) < 2 THEN Len(parts) ELSE 2)

truncate_to_two_sentences(text) ==
    strip(Join(<<" ">>, FirstTwo(SplitSentences(strip(text)))))

\* The filter with a timestamp of exactly WINDOW seconds kept.
InWindowInclusive(history, now) == SelectSeq(history, LAMBDA t : now - t <= WINDOW)

\* ------------------------------------------------------------ rate limiter
\* The comprehension [t for t in history if (now - t).total_seconds() < 60].
InWindow(history, now) == SelectSeq(history, LAMBDA t : now - t < WINDOW)

\* cleanup_old_requests: every user's list is filtered; a user whose list
\* becomes empty is deleted from the dict.
cleanup_old_requests(h, now) ==
    [u \in {v \in DOMAIN h : InWindow(h[v], now) # <<>>} |-> InWindow(h[u], now)]

\* h with key u bound to value v (dict item assignment).
SetItem(h, u, v) == [w \in DOMAIN h \cup {u} |-> IF w = u THEN v ELSE h[w]]

\* The decision with > in place of >= (one request more gets through).
OverLimitOff(history) == Len(history) > RATE_LIMIT

\* The decision of is_rate_limited on the filtered list (line 123).
OverLimit(history) == Len(history) >= RATE_LIMIT

\* Lines 118-127 of is_rate_limited: h is the dict after lines 110-115 and
\* kept the caller's filtered list.
Decide(h, u, kept, now) ==
    IF OverLimit(kept)
    THEN [hist |-> SetItem(h, u, kept), outcome |-> "rejected"]
    ELSE [hist |-> SetItem(h, u, Append(kept, now)), outcome |-> "allowed"]

\* Line 118 reads request_history[user_id]: KeyError when the key is gone.
Refilter(h, u, now) ==
    IF u \notin DOMAIN h
    THEN [hist |-> h, outcome |-> "KeyError"]
    ELSE Decide(h, u, InWindow(h[u], now), now)

\* Lines 110-111: a user not seen before gets an empty list.
Ensure(h, u) == IF u \in DOMAIN h THEN h ELSE SetItem(h, u, <<>>)

\* is_rate_limited(user_id), with `sweep` the outcome of random.random() < 0.1.
\* The result is the dict after the call and the outcome: "allowed" (returns
\* False), "rejected" (returns True) or "KeyError" (line 118 reads a key the
\* sweep has deleted).
is_rate_limited(h, u, now, sweep) ==
    Refilter(IF sweep THEN cleanup_old_requests(Ensure(h, u), now) ELSE Ensure(h, u),
             u, now)

\* ----------------------------------------------------- exceptions, dicts
\* The completion of a Python evaluation: a value, or an exception raised.
Ok(v) == [exc |-> "none", val |-> v]

Raise(e) == [exc |-> e, val |-> <<>>]

\* d[k]: a missing key raises KeyError.
DictGet(d, k) == IF k \in DOMAIN d THEN Ok(d[k]) ELSE Raise("KeyError")

\* ------------------------------------------- constants & canned responses
RESP ==
    [welcome |-> <<"[RESP.welcome]">>,
     greeting |-> << <<"[RESP.greeting.0]">>, <<"[RESP.greeting.1]">> >>,
     affirm |-> <<"[RESP.affirm]">>,
     unknown |-> <<"[RESP.unknown]">>,
     exit |-> <<"[RESP.exit]">>,
     error |-> <<"[RESP.error]">>,
     invalid_input |-> <<"[RESP.invalid_input]">>,
     rate_limit |-> <<"[RESP.rate_limit]">>]

\* "You're welcome! ..." (main.py line 171)
YOURE_WELCOME == <<"[You're welcome!]">>

\* "I couldn't find that in my data, but here are some resources ...\n\n"
NOT_IN_MY_DATA == <<"[I couldn't find that in my data, but here are some resources that might help you:]", "\n", "\n">>

\* "I couldn't find that in my local data, but here are some relevant resources:"
NOT_IN_LOCAL_DATA == <<"[I couldn't find that in my local data, but here are some relevant resources:]">>

\* "I couldn't find relevant information in my local data or on the web. ..."
NOTHING_FOUND == <<"[I couldn't find relevant information in my local data or on the web. Could you please rephrase your question?]">>

HTTP == <<"h", "t", "t", "p">>

GREETINGS ==
    {<<"h", "i">>,
     <<"h", "e", "l", "l", "o">>,
     <<"h", "e", "y">>,
     <<"y", "o">>,
     <<"g", "r", "e", "e", "t", "i", "n", "g", "s">>}

AFFIRMATIVES ==
    {<<"y", "e", "s">>,
     <<"y", "e", "p">>,
     <<"s", "u", "r", "e">>,
     <<"o", "k">>,
     <<"o", "k", "a", "y">>,
     <<"p", "l", "e", "a", "s", "e">>}

DECLINES ==
    {<<"n", "o">>,
     <<"n", "a", "h">>,
     <<"n", "o", "p", "e">>,
     <<"s", "t", "o", "p">>}

BYES ==
    {<<"b", "y", "e">>,
     <<"g", "o", "o", "d", "b", "y", "e">>,
     <<"s", "e", "e", " ", "y", "a">>,
     <<"l", "a", "t", "e", "r">>}

GRATITUDES ==
    {<<"t", "h", "a", "n", "k", "s">>,
     <<"t", "h", "a", "n", "k", " ", "y", "o", "u">>,
     <<"t", "h", "x">>,
     <<"t", "h", "a", "n", "k", " ", "u">>,
     <<"t", "y">>,
     <<"a", "w", "s", "o", "m", "e">>}

\* The alternatives of the pattern r'^(who|what|where|when|why|how)\\b'.
INTERROGATIVES ==
    {<<"w", "h", "o">>,
     <<"w", "h", "a", "t">>,
     <<"w", "h", "e", "r", "e">>,
     <<"w", "h", "e", "n">>,
     <<"w", "h", "y">>,
     <<"h", "o", "w">>}

\* ---------------------------------------------------------- intent dispatch
\* re.match(r'^(who|what|where|when|why|how)\\b', lower): in a raw string \\b
\* is an escaped backslash followed by the letter b, so the pattern asks for
\* the two characters \ and b right after the interrogative word.
MatchesInterrogative(low) ==
    \E w \in INTERROGATIVES : StartsWith(low, w \o <<"\\", "b">>)

\* The branch of lines 163-175 that a lower-cased, trimmed question takes.
Intent(low) ==
    IF MatchesInterrogative(low) THEN "FactualQuestion"
    ELSE IF low \in BYES THEN "Farewell"
    ELSE IF low \in DECLINES THEN "Decline"
    ELSE IF \E g \in GRATITUDES : Contains(low, g) THEN "Gratitude"
    ELSE IF low \in AFFIRMATIVES THEN "Affirmative"
    ELSE IF low \in GREETINGS THEN "Greeting"
    ELSE "Generic"

\* The return statement of each branch; choice is random.choice's index.
CannedReply(intent, choice) ==
    CASE intent = "Farewell" -> DictGet(RESP, "exit")
      [] intent = "Decline" -> DictGet(RESP, "decline")
      [] intent = "Gratitude" -> Ok(YOURE_WELCOME)
      [] intent = "Affirmative" -> DictGet(RESP, "affirm")
      [] intent = "Greeting" -> Ok(RESP.greeting[choice])

\* The greeting branch without its return.
GoesToRetrievalLeaky(intent) == intent \in {"FactualQuestion", "Generic", "Greeting"}

\* The branches that do not return: `pass` and falling out of the else block.
GoesToRetrieval(intent) == intent \in {"FactualQuestion", "Generic"}

\* ---------------------------------------------------------------- retrieval
Min2(a, b) == IF a <= b THEN a ELSE b

\* The loop of get_snippets over the (doc, score) pairs the index returned.
RECURSIVE CollectFrom(_, _, _, _)
CollectFrom(results, i, docs, k_eff) ==
    IF i > Len(results) THEN docs
    ELSE IF results[i].score >= MIN_SCORE
         THEN LET more == Append(docs, results[i].doc)
              IN  IF Len(more) >= k_eff THEN more
                  ELSE CollectFrom(results, i + 1, more, k_eff)
         ELSE CollectFrom(results, i + 1, docs, k_eff)

\* The try block with a filter that drops a score equal to MIN_SCORE.
get_snippets_try_strict(ix, k) ==
    IF ix.fail # "none" THEN Raise("IndexError")
    ELSE Ok([j \in 1..Len(SelectSeq(SubSeq(ix.ranked, 1,
                                             Min2(Min2(k, ix.total), Len(ix.ranked))),
                                      LAMBDA c : c.score > MIN_SCORE))
               |-> SelectSeq(SubSeq(ix.ranked, 1,
                                    Min2(Min2(k, ix.total), Len(ix.ranked))),
                             LAMBDA c : c.score > MIN_SCORE)[j].doc])

\* The try block of get_snippets.  ix is the index at the time of the call:
\* fail names the call that raises ("count", "query" or "none"), total is
\* _collection.count() and ranked the index's ranking for the question, of
\* which similarity_search_with_score(question, k=k_eff) returns the first k_eff.
get_snippets_try(ix, k) ==
    IF ix.fail = "count" THEN Raise("IndexError")
    ELSE LET k_eff == Min2(k, ix.total)
             results == SubSeq(ix.ranked, 1, Min2(k_eff, Len(ix.ranked)))
         IN  IF ix.fail = "query" THEN Raise("IndexError")
             ELSE Ok(CollectFrom(results, 1, <<>>, k_eff))

\* except Exception: log the error and return [].
EmptyOnError(r) == IF r.exc = "none" THEN r ELSE Ok(<<>>)

\* get_snippets: any exception is logged and [] returned.
get_snippets(ix, k) == EmptyOnError(get_snippets_try(ix, k))

\* The try block of search_web.  provider is the search provider's behaviour
\* for this request: kind "network_error" (requests.get raises), "http_error"
\* (raise_for_status raises), "malformed" (the parser rejects the body) or
\* "page", with items the .result elements of the page, complete when title,
\* snippet and url elements are all present.
Parsed(whole) ==
    [j \in 1..Len(whole) |->
        [title |-> whole[j].title, snippet |-> whole[j].snippet, url |-> whole[j].url]]

search_web_try(provider) ==
    IF provider.kind = "network_error" THEN Raise("ConnectionError")
    ELSE IF provider.kind = "http_error" THEN Raise("HTTPError")
    ELSE IF provider.kind = "malformed" THEN Raise("ParserRejectedMarkup")
    ELSE Ok(Parsed(SelectSeq(SubSeq(provider.items, 1,
                                    Min2(NUM_RESULTS, Len(provider.items))),
                             LAMBDA it : it.complete)))

\* search_web without its except clause.
search_web_unguarded(provider) == search_web_try(provider)

\* search_web: any exception is logged and [] returned.
search_web(provider) == EmptyOnError(search_web_try(provider))

\* f"[pin] {title}\n{snippet}\n[link] {url}" of get_snippets_str
RenderResult(result) ==
    <<"[pin]", " ">> \o result.title \o <<"\n">> \o result.snippet
        \o <<"\n", "[link]", " ">> \o result.url

\* f"From {source}:\n{doc.page_content}"
RenderDoc(doc) ==
    <<"F", "r", "o", "m", " ">> \o doc.source \o <<":", "\n">> \o doc.page_content

\* Lines 295-302 of get_snippets_str: w is search_web's completion.
WebListing(w) ==
    [exc |-> w.exc,
     val |-> IF w.exc # "none" THEN <<>>
             ELSE IF w.val # <<>>
             THEN Join(<<"\n", "\n">>,
                       <<NOT_IN_LOCAL_DATA>>
                         \o [j \in 1..Len(w.val) |-> RenderResult(w.val[j])])
             ELSE NOTHING_FOUND,
     docs |-> <<>>, webCalled |-> TRUE, webResults |-> w.val]

\* Lines 293-308 of get_snippets_str: docs is what get_snippets returned.
Listing(docs, provider) ==
    IF docs = <<>>
    THEN WebListing(search_web(provider))
    ELSE [exc |-> "none",
          val |-> Join(<<"\n", "\n">>, [j \in 1..Len(docs) |-> RenderDoc(docs[j])]),
          docs |-> docs, webCalled |-> FALSE, webResults |-> <<>>]

\* get_snippets_str(question): its completion, and what it called.
get_snippets_str(ix, provider) == Listing(get_snippets(ix, TOP_K).val, provider)

\* ------------------------------------------------------------- orchestrator
\* What one call of process_question did; hist is request_history after it.
Obs0(h) ==
    [exc |-> "none", val |-> <<>>, hist |-> h,
     valid |-> FALSE, rlOutcome |-> "skipped", intent |-> "none",
     nRetrieve |-> 0, nWeb |-> 0, nGen |-> 0,
     ix1Failed |-> FALSE, docs1 |-> <<>>, fellBack |-> FALSE, docs2 |-> <<>>,
     webFailure |-> "none", webResults |-> <<>>,
     genFailed |-> FALSE, genOut |-> <<>>]

Done(o, completion) == [o EXCEPT !.exc = completion.exc, !.val = completion.val]

IGNORANCE_PREFIXES ==
    {<<"i", "'", "m", " ", "s", "o", "r", "r", "y">>,
     <<"i", " ", "d", "o", "n", "'", "t", " ", "k", "n", "o", "w">>,
     <<"i", " ", "d", "o", "n", "t", " ", "k", "n", "o", "w">>}

\* Lines 192-197 without the call of truncate_to_two_sentences.
PostProcessUntruncated(llm_out) ==
    IF \E pre \in IGNORANCE_PREFIXES : StartsWith(lower(llm_out), pre)
    THEN DictGet(RESP, "unknown")
    ELSE Ok(llm_out)

\* Lines 192-197: llm_out is chain.invoke(q).strip().
PostProcess(llm_out) ==
    IF \E pre \in IGNORANCE_PREFIXES : StartsWith(lower(llm_out), pre)
    THEN DictGet(RESP, "unknown")
    ELSE Ok(truncate_to_two_sentences(llm_out))

\* The chain call with a failure answered by the unknown response.
GenerateSilent(llm) ==
    IF llm.fail THEN DictGet(RESP, "unknown") ELSE PostProcess(strip(llm.text))

\* Lines 189-201: the chain call and its post-processing, inside try/except.
\* llm is the generation model's behaviour: fail (the call raises) or text.
Generate(llm) ==
    IF llm.fail THEN DictGet(RESP, "error") ELSE PostProcess(strip(llm.text))

\* Lines 183-186: s is what retriever.invoke_str(q) did.
FallbackReply(o, s) ==
    IF s.exc # "none" THEN Done(o, Raise(s.exc))
    ELSE IF Contains(s.val, HTTP) THEN Done(o, Ok(NOT_IN_MY_DATA \o s.val))
    ELSE Done(o, DictGet(RESP, "unknown"))

\* Lines 180-186: the web fallback branch.
Fallback(o, s, provider) ==
    FallbackReply([o EXCEPT !.fellBack = TRUE, !.nRetrieve = 2,
                            !.docs2 = s.docs,
                            !.nWeb = IF s.webCalled THEN 1 ELSE 0,
                            !.webFailure = IF s.webCalled /\ provider.kind # "page"
                                           THEN provider.kind ELSE "none",
                            !.webResults = s.webResults],
                  s)

\* Lines 179-201: snippets_docs is what retriever.invoke(q) returned.  On the
\* generation branch the chain's snippets lambda calls retriever.invoke(q)
\* once more before the model is called.
AnswerFrom(o, snippets_docs, ix2, provider, llm) ==
    IF snippets_docs = <<>>
    THEN Fallback([o EXCEPT !.nRetrieve = 1], get_snippets_str(ix2, provider), provider)
    ELSE Done([o EXCEPT !.nRetrieve = 2, !.docs1 = snippets_docs, !.nGen = 1,
                        !.genFailed = llm.fail,
                        !.genOut = IF llm.fail THEN <<>> ELSE llm.text],
              Generate(llm))

\* Lines 177-201: retrieval, web fallback, generation.
Answer(o, ix1, ix2, provider, llm) ==
    AnswerFrom([o EXCEPT !.ix1Failed = ix1.fail # "none"],
               get_snippets(ix1, TOP_K).val, ix2, provider, llm)

\* Lines 163-201: intent is the branch the question takes.
Dispatch(o, intent, choice, ix1, ix2, provider, llm) ==
    IF GoesToRetrieval(intent)
    THEN Answer([o EXCEPT !.intent = intent], ix1, ix2, provider, llm)
    ELSE Done([o EXCEPT !.intent = intent], CannedReply(intent, choice))

\* Lines 151-201 without the return of line 153.
LimitedUnchecked(o, r, low, choice, ix1, ix2, provider, llm) ==
    IF r.outcome = "KeyError" THEN Done(o, Raise("KeyError"))
    ELSE Dispatch(o, Intent(low), choice, ix1, ix2, provider, llm)

\* Lines 151-201: r is what is_rate_limited(user_id) did.
Limited(o, r, low, choice, ix1, ix2, provider, llm) ==
    IF r.outcome = "KeyError" THEN Done(o, Raise("KeyError"))
    ELSE IF r.outcome = "rejected" THEN Done(o, DictGet(RESP, "rate_limit"))
    ELSE Dispatch(o, Intent(low), choice, ix1, ix2, provider, llm)

RateChecked(h, r) ==
    [Obs0(h) EXCEPT !.valid = TRUE, !.hist = r.hist, !.rlOutcome = r.outcome]

AfterRateLimit(h, r, low, choice, ix1, ix2, provider, llm) ==
    Limited(RateChecked(h, r), r, low, choice, ix1, ix2, provider, llm)

\* Lines 145-201, the body of the outer try of process_question.  low is
\* sanitize_input(q).lower().strip() (lines 156-157).
process_question_try(q, low, h, u, now, sweep, choice, ix1, ix2, provider, llm) ==
    IF q = <<>> \/ Len(q) > MAX_QUESTION_LEN
    THEN Done(Obs0(h), DictGet(RESP, "invalid_input"))
    ELSE AfterRateLimit(h, is_rate_limited(h, u, now, sweep), low, choice,
                        ix1, ix2, provider, llm)

\* Lines 203-205: an exception of the body is logged and RESP["error"]
\* returned.  caught names that exception.
Contained(o) ==
    [obs |-> IF o.exc = "none" THEN o ELSE Done(o, DictGet(RESP, "error")),
     caught |-> o.exc]

process_question(q, low, h, u, now, sweep, choice, ix1, ix2, provider, llm) ==
    Contained(process_question_try(q, low, h, u, now, sweep, choice, ix1, ix2,
                                   provider, llm))

\* get_answer without its except clause.
get_answer_unguarded(loopRunning, p) ==
    IF loopRunning THEN Raise("RuntimeError")
    ELSE [exc |-> p.obs.exc, val |-> p.obs.val]

\* get_answer: asyncio.run(process_question(q, user_id)) inside try/except.
\* asyncio.run raises RuntimeError, without running the coroutine, when the
\* calling thread already runs an event loop (loopRunning).  p is what
\* process_question did when it ran.
get_answer(loopRunning, p) ==
    IF loopRunning \/ p.obs.exc # "none" THEN DictGet(RESP, "error")
    ELSE Ok(p.obs.val)

\* ---------------------------------------------------- embedding cache
\* embedding_cache is a dict: here the sequence of its items in the dict's
\* order (the order in which the keys were first inserted), each item a text,
\* the timestamp and the vector stored with it.
TimestampsOf(cache) == {cache[j].ts : j \in 1..Len(cache)}

\* sorted(embedding_cache.items(), key=lambda x: x[1][0]): ascending
\* timestamps, items of equal timestamp in the dict's order (the sort is stable).
StampedAt(cache, t) == SelectSeq(cache, LAMBDA e : e.ts = t)

RECURSIVE SortedFrom(_, _)
SortedFrom(cache, stamps) ==
    IF stamps = {} THEN <<>>
    ELSE StampedAt(cache, SetMin(stamps))
           \o SortedFrom(cache, stamps \ {SetMin(stamps)})

sorted_items(cache) == SortedFrom(cache, TimestampsOf(cache))

\* Lines 64-66: the keys of the first items_to_remove sorted items are deleted.
Removed(srt, items_to_remove) == {srt[j].text : j \in 1..items_to_remove}

DeleteKeys(cache, keys) == SelectSeq(cache, LAMBDA e : e.text \notin keys)

\* The keys cleanup_cache deletes, with a limit that lets one entry too
\* many stay.
VictimsLate(cache) ==
    IF Len(cache) > MAX_CACHE_SIZE + 1
    THEN Removed(sorted_items(cache), Len(cache) - MAX_CACHE_SIZE - 1)
    ELSE {}

\* The keys cleanup_cache deletes.
Victims(cache) ==
    IF Len(cache) > MAX_CACHE_SIZE
    THEN Removed(sorted_items(cache), Len(cache) - MAX_CACHE_SIZE)
    ELSE {}

Evict(cache, victims) == IF victims = {} THEN cache ELSE DeleteKeys(cache, victims)

cleanup_cache(cache) == Evict(cache, Victims(cache))

\* embedding_cache[text] = (datetime.now(), np.array(embedding)): an existing
\* key keeps its place in the dict, a new key goes to the end.
PutItem(cache, text, now, vec) ==
    IF \E j \in 1..Len(cache) : cache[j].text = text
    THEN [j \in 1..Len(cache) |->
            IF cache[j].text = text THEN [text |-> text, ts |-> now, vec |-> vec]
            ELSE cache[j]]
    ELSE Append(cache, [text |-> text, ts |-> now, vec |-> vec])

cache_embedding(cache, text, now, vec) == cleanup_cache(PutItem(cache, text, now, vec))

\* Line 72 with <= in place of <.
FreshAtTTL(entry, now) == now - entry.ts <= CACHE_TTL

\* Line 72: datetime.now() - timestamp < timedelta(seconds=CACHE_TTL)
Fresh(entry, now) == now - entry.ts < CACHE_TTL

\* Lines 71-76: entry is embedding_cache[text].
Lookup(cache, entry, now) ==
    IF Fresh(entry, now)
    THEN [cache |-> cache, hit |-> TRUE, vec |-> entry.vec]
    ELSE [cache |-> DeleteKeys(cache, {entry.text}), hit |-> FALSE, vec |-> "None"]

\* get_cached_embedding(text): the vector returned ("None" for None) and the
\* cache after the call.
get_cached_embedding(cache, text, now) ==
    IF \E j \in 1..Len(cache) : cache[j].text = text
    THEN Lookup(cache, cache[CHOOSE j \in 1..Len(cache) : cache[j].text = text], now)
    ELSE [cache |-> cache, hit |-> FALSE, vec |-> "None"]

\* ------------------------------------------------ query-result cache
\* @lru_cache(maxsize=1000) on get_snippets: the cache key is the tuple of
\* the call's arguments, so get_snippets(question) and get_snippets(question, 3)
\* have different keys.  For one question, key is the tuple of the arguments
\* after it: <<>> or <<k>>.  The model makes fewer than maxsize different
\* calls, so no entry is evicted.
KOf(key) == IF key = <<>> THEN TOP_K ELSE key[1]

Memo(cache, key, val) == [cache |-> SetItem(cache, key, val), hit |-> FALSE, val |-> val]

lru_get_snippets(cache, ix, key) ==
    IF key \in DOMAIN cache
    THEN [cache |-> cache, hit |-> TRUE, val |-> cache[key]]
    ELSE Memo(cache, key, get_snippets(ix, KOf(key)).val)

\* ------------------------------------------------------------------- inputs
EmptyQuestion == <<>>

LongQuestion == [i \in 1..(MAX_QUESTION_LEN + 1) |-> "a"]

Questions ==
    <<<<"h", "e", "l", "l", "o">>,
      <<" ", "H", "e", "l", "l", "o", " ">>,
      <<"<", "h", "i", ">">>,
      <<"h", "i", " ", "t", "h", "e", "r", "e">>,
      <<"b", "y", "e">>,
      <<"n", "o">>,
      <<"y", "e", "s">>,
      <<"t", "h", "a", "n", "k", "s">>,
      <<"t", "h", "a", "n", "k", "s", ",", " ", "b", "y", "e">>,
      <<"w", "h", "y", " ", "t", "h", "a", "n", "k", "s">>,
      <<"w", "h", "y", " ", "i", "s", " ", "t", "h", "e", " ", "s", "k", "y", " ", "h", "i">>,
      <<"w", "h", "a", "t", " ", "i", "s", " ", "x">>,
      <<"h", "o", "w", "\\", "b", " ", "t", "y">>,
      <<"<", ">">>,
      <<"q", "u", "i", "t">>,
      EmptyQuestion,
      LongQuestion,
      <<"a", "w", "s", "o", "m", "e">>>>

\* The lower-cased, trimmed, sanitised form of each input, and its branch,
\* tabulated once.
LowerOf == [i \in 1..Len(Questions) |-> strip(lower(sanitize_input(Questions[i])))]

IntentOf == [i \in 1..Len(Questions) |-> Intent(LowerOf[i])]

\* The users whose requests the orchestrator specification follows.
Callers == {"u1"}

DocPlain ==
    [page_content |-> <<"3", "0", " ", "d", "a", "y", "s">>,
     source |-> <<"f", "a", "q">>]

DocLink ==
    [page_content |-> <<"s", "e", "e", " ", "h", "t", "t", "p", ":", "/", "/", "x">>,
     source |-> <<"f", "a", "q">>]

IxDown == [fail |-> "query", total |-> 2, ranked |-> <<>>]

IxLow == [fail |-> "none", total |-> 1,
          ranked |-> <<[doc |-> DocPlain, score |-> 64]>>]

IxHit == [fail |-> "none", total |-> 5,
          ranked |-> <<[doc |-> DocPlain, score |-> 80],
                       [doc |-> DocLink, score |-> 65],
                       [doc |-> DocPlain, score |-> 50]>>]

IndexStates == {IxDown, IxLow, IxHit}

\* An empty collection, a collection whose count() fails, one whose ranking
\* is not in score order, and one that holds the same text twice.
Chunk(c, src) == [page_content |-> <<c>>, source |-> <<src>>]

IxEmpty == [fail |-> "none", total |-> 0, ranked |-> <<>>]

IxCountDown == [fail |-> "count", total |-> 5, ranked |-> <<>>]

IxFive == [fail |-> "none", total |-> 5,
           ranked |-> <<[doc |-> Chunk("a", "f"), score |-> 90],
                        [doc |-> Chunk("b", "f"), score |-> 70],
                        [doc |-> Chunk("c", "f"), score |-> 64],
                        [doc |-> Chunk("d", "f"), score |-> 50],
                        [doc |-> Chunk("e", "f"), score |-> 80]>>]

IxDup == [fail |-> "none", total |-> 4,
          ranked |-> <<[doc |-> Chunk("a", "f"), score |-> 90],
                       [doc |-> Chunk("a", "g"), score |-> 85],
                       [doc |-> Chunk("b", "f"), score |-> 65],
                       [doc |-> Chunk("c", "f"), score |-> 40]>>]

IndexContents == {IxEmpty, IxDown, IxCountDown, IxLow, IxHit, IxFive, IxDup}

\* get_snippets(q), get_snippets(q, 1), get_snippets(q, 3), get_snippets(q, 5)
SnippetCalls == {<<>>, <<1>>, <<3>>, <<5>>}

ItemLink ==
    [complete |-> TRUE, title |-> <<"T">>, snippet |-> <<"S">>,
     url |-> <<"h", "t", "t", "p", "s", ":", "/", "/", "a", ".", "b">>]

ItemBare ==
    [complete |-> TRUE, title |-> <<"T">>, snippet |-> <<"S">>,
     url |-> <<"a", ".", "b", "/", "c">>]

ItemPartial ==
    [complete |-> FALSE, title |-> <<"T">>, snippet |-> <<>>,
     url |-> <<"a", ".", "b">>]

Providers ==
    {[kind |-> "network_error", items |-> <<>>],
     [kind |-> "http_error", items |-> <<>>],
     [kind |-> "malformed", items |-> <<>>],
     [kind |-> "page", items |-> <<ItemPartial>>],
     [kind |-> "page", items |-> <<ItemBare>>],
     [kind |-> "page", items |-> <<ItemLink, ItemBare>>],
     [kind |-> "page", items |-> <<ItemBare, ItemBare, ItemBare, ItemLink>>]}

LlmOutcomes ==
    {[fail |-> TRUE, text |-> <<>>],
     [fail |-> FALSE, text |-> <<" ", "I", "'", "m", " ", "s", "o", "r", "r", "y", ".">>],
     [fail |-> FALSE, text |-> <<"A", ".", " ", "B", ".", " ", "C", ".">>],
     [fail |-> FALSE,
      text |-> <<"I", " ", "D", "O", "N", "'", "T", " ", "K", "N", "O", "W">>],
     [fail |-> FALSE,
      text |-> <<"O", "k", " ", "n", "o", "w", "\n", "\n", "A", "!", " ", " ",
                 "B", "?", " ", "C", "\n">>]}

\* -------------------------------------------------------------------- state
\* What the model remembers of the latest direct is_rate_limited call.
RlRecord(h, u, now, sweep, outcome) ==
    [user |-> u, now |-> now, sweep |-> sweep, outcome |-> outcome,
     known |-> u \in DOMAIN h,
     before |-> IF u \in DOMAIN h THEN h[u] ELSE <<>>]

NoRl == [user |-> "none", now |-> 0, sweep |-> FALSE, outcome |-> "none",
         known |-> FALSE, before |-> <<>>]

\* What the model remembers of a get_answer call until its answer is
\* delivered: the question (an index of Questions), the caller, how many of
\* the caller's timestamps were younger than the window when the call began,
\* whether process_question ran, what it did (obs), whether it left
\* request_history as it was, the exception its handler caught, and
\* get_answer's completion.
PqRecord(i, u, now, h, ran, obs, caught, answer) ==
    [q |-> i, user |-> u,
     inWindowBefore |-> IF u \in DOMAIN h THEN Len(InWindow(h[u], now)) ELSE 0,
     ran |-> ran,
     obs |-> [obs EXCEPT !.hist = <<>>],
     historyUnchanged |-> obs.hist = h,
     caught |-> caught, raised |-> answer.exc, answer |-> answer.val]

NoPq == PqRecord(0, "none", 0, <<>>, FALSE, Obs0(<<>>), "none", Ok(<<>>))

\* What the model remembers of the cache_embedding calls: how many texts
\* the cache was filled with at the start (texts 1..filled, in this order),
\* the texts of the calls since, and of the latest call its text, its time,
\* the number of entries before it and the entries cleanup_cache deleted.
\* stored holds, for each text of a call since the start, the vector and
\* the time of the latest call for it.
EcRecord(filled, log, text, now, lenBefore, evicted, stored) ==
    [filled |-> filled, log |-> log, text |-> text, now |-> now,
     lenBefore |-> lenBefore, evicted |-> evicted, stored |-> stored]

NoEc == EcRecord(0, <<>>, 0, 0, 0, <<>>, << >>)

\* What the model remembers of the latest get_cached_embedding call: its
\* text, its time, whether a vector was returned and which, and the cache as
\* it was before the call.
LkRecord(text, now, r, before) ==
    [called |-> TRUE, text |-> text, now |-> now, hit |-> r.hit, vec |-> r.vec,
     before |-> before]

NoLk == [called |-> FALSE, text |-> 0, now |-> 0, hit |-> FALSE, vec |-> "None",
         before |-> <<>>]

\* What the model remembers of a truncate_to_two_sentences call.
NoTr == [text |-> <<>>, out |-> <<>>, called |-> FALSE]

\* What the model remembers of a get_snippets call until it has returned:
\* the arguments after the question (key), k, the index as it was during
\* the call, whether the lru_cache answered, and the value returned.
GsRecord(key, ix, r) ==
    [key |-> key, k |-> KOf(key), ix |-> ix, hit |-> r.hit, result |-> r.val]

NoGs == [key |-> <<0>>, k |-> 0, ix |-> IxEmpty, hit |-> FALSE, result |-> <<>>]

\* app.py serves every request in a thread of its own (Flask's development
\* server, app.run at app.py:225), so two calls of is_rate_limited can be
\* inside the function at once.
Threads == {"t1", "t2"}

\* A thread's position in is_rate_limited (the line it executes next), the
\* user it was called for, its local `now` and the list built by the
\* comprehension of lines 118-121 that is not assigned yet.
InCall(pc, u, now, kept) == [pc |-> pc, user |-> u, now |-> now, kept |-> kept]

Idle == InCall("idle", "none", 0, <<>>)

\* What the calls have done so far: how many have begun, the timestamps of
\* the calls that returned False (allowed) per user, and whether a call ended
\* with an exception.
NoConc == [started |-> 0, granted |-> [u \in Users |-> <<>>], failed |-> FALSE]

\* A run of _index_documents: where it is ("idle": not started; "file":
\* between two files of the glob; "unit": inside the loop over the rows or
\* pages of file f; "done"), the file, the ordinal i of the next unit and
\* the number n of units of the file, the lists docs and ids, and the ids
\* handed to the vector store.
RunRecord(pc, f, i, n, docs, ids, added) ==
    [pc |-> pc, f |-> f, i |-> i, n |-> n, docs |-> docs, ids |-> ids,
     added |-> added]

NoRun == RunRecord("idle", 0, 0, 0, <<>>, <<>>, <<>>)

\* The command-line session of main(): where it is ("off": not started;
\* "loop": at the prompt; "ended": the loop was left), the latest line
\* read (an index of CliLines, 0 for none or end of input) and what was
\* printed for it.
CliRecord(pc, line, answer) == [pc |-> pc, line |-> line, answer |-> answer]

NoCli == CliRecord("off", 0, <<>>)

\* A get_answer call followed through the generation call of line 190: where
\* it is (idle: no call; generating: inside chain.invoke; returned), its
\* question and caller, whether the generation model ever completes the
\* call, and the answer returned.
GaRecord(pc, i, u, hangs, answer) ==
    [pc |-> pc, q |-> i, user |-> u, hangs |-> hangs, answer |-> answer]

NoGa == GaRecord("idle", 0, "none", FALSE, <<>>)

Init ==
    /\ clock = 0
    /\ request_history = << >>
    /\ rl = NoRl
    /\ pq = NoPq
    /\ index = IxEmpty
    /\ snippets_cache = << >>
    /\ gs = NoGs
    /\ embedding_cache = << >>
    /\ ec = NoEc
    /\ lk = NoLk
    /\ tr = NoTr
    /\ th = [t \in Threads |-> Idle]
    /\ conc = NoConc
    /\ ga = NoGa
    /\ em = 0
    /\ run = NoRun
    /\ cli = NoCli

\* Time passes between two calls.
Tick ==
    /\ pq = NoPq
    /\ clock + TickSeconds <= MaxTicks * TickSeconds
    /\ clock' = clock + TickSeconds
    /\ UNCHANGED <<request_history, rl, pq>>
    /\ UNCHANGED <<retrievalVars, embeddingVars, tr, threadVars, callVars>>

\* A direct call is_rate_limited(u).
IsRateLimited(u, sweep) ==
    /\ \E r \in {is_rate_limited(request_history, u, clock, sweep)} :
         /\ request_history' = r.hist
         /\ rl' = RlRecord(request_history, u, clock, sweep, r.outcome)
    /\ UNCHANGED <<clock, pq>>
    /\ UNCHANGED <<retrievalVars, embeddingVars, tr, threadVars, callVars>>

\* get_answer(Questions[i], u) from a thread that already runs an event loop.
GetAnswerInLoop(i, u) ==
    /\ pq = NoPq
    /\ pq' = PqRecord(i, u, clock, request_history, FALSE, Obs0(request_history),
                      "none", get_answer(TRUE, [obs |-> Obs0(request_history)]))
    /\ UNCHANGED <<clock, request_history, rl>>
    /\ UNCHANGED <<retrievalVars, embeddingVars, tr, threadVars, callVars>>

\* get_answer(Questions[i], u) with the given behaviour of the collaborators.
GetAnswer(i, u, sweep, choice, ix1, ix2, provider, llm) ==
    /\ pq = NoPq
    /\ \E p \in {process_question(Questions[i], LowerOf[i], request_history, u,
                                  clock, sweep, choice, ix1, ix2, provider, llm)} :
         /\ request_history' = p.obs.hist
         /\ pq' = PqRecord(i, u, clock, request_history, TRUE, p.obs, p.caught,
                           get_answer(FALSE, p))
    /\ UNCHANGED <<clock, rl>>
    /\ UNCHANGED <<retrievalVars, embeddingVars, tr, threadVars, callVars>>

\* The caller takes the answer; the next call can start.
Deliver ==
    /\ pq # NoPq
    /\ pq' = NoPq
    /\ UNCHANGED <<clock, request_history, rl>>
    /\ UNCHANGED <<retrievalVars, embeddingVars, tr, threadVars, callVars>>

\* The collaborators a call reaches are drawn; those it does not reach are not.
Reaches(i, u, sweep) ==
    LET q == Questions[i]
    IN  IF q = <<>> \/ Len(q) > MAX_QUESTION_LEN THEN "nothing"
        ELSE IF is_rate_limited(request_history, u, clock, sweep).outcome # "allowed"
        THEN "nothing"
        ELSE IF GoesToRetrieval(IntentOf[i]) THEN "retrieval"
        ELSE IF IntentOf[i] = "Greeting" THEN "choice" ELSE "nothing"

AnyProvider == CHOOSE p \in Providers : TRUE

AnyLlm == CHOOSE l \in LlmOutcomes : TRUE

GetAnswerCall ==
    /\ pq = NoPq
    /\ \E i \in 1..Len(Questions), u \in Callers, sweep \in BOOLEAN :
         \E reach \in {Reaches(i, u, sweep)} :
           \E choice \in (IF reach = "choice" THEN {1, 2} ELSE {1}),
              ix1 \in (IF reach = "retrieval" THEN IndexStates ELSE {IxDown}) :
             \E empty1 \in {reach = "retrieval" /\ get_snippets(ix1, TOP_K).val = <<>>} :
               \E ix2 \in (IF empty1 THEN IndexStates ELSE {ix1}) :
                 \E provider \in (IF empty1 /\ get_snippets(ix2, TOP_K).val = <<>>
                                  THEN Providers ELSE {AnyProvider}),
                    llm \in (IF reach = "retrieval" /\ ~empty1
                             THEN LlmOutcomes ELSE {AnyLlm}) :
                   GetAnswer(i, u, sweep, choice, ix1, ix2, provider, llm)

NextRL ==
    \/ Tick
    \/ \E u \in Users, sweep \in BOOLEAN : IsRateLimited(u, sweep)

SpecRL == Init /\ [][NextRL]_vars

\* ----------------------------------------- is_rate_limited, interleaved
\* Calls of is_rate_limited from two request threads. A step is one
\* statement of the function (the interpreter can switch threads between any
\* two bytecodes, so between any two statements); the sweep is one step.
MaxStarted == 12

Goto(t, pc, kept) == [th EXCEPT ![t] = InCall(pc, th[t].user, th[t].now, kept)]

\* The call of thread t ends: allowed (its timestamp is in `granted`),
\* rejected, or with the KeyError of a subscript on a deleted key.
Return(t, outcome) ==
    /\ th' = [th EXCEPT ![t] = Idle]
    /\ conc' = [conc EXCEPT
                  !.granted[th[t].user] =
                      IF outcome = "allowed" THEN Append(@, th[t].now) ELSE @,
                  !.failed = @ \/ outcome = "KeyError"]

\* Line 109: the call begins and reads the clock.
Begin(t, u) ==
    /\ th[t].pc = "idle"
    /\ conc.started < MaxStarted
    /\ th' = [th EXCEPT ![t] = InCall("ensure", u, clock, <<>>)]
    /\ conc' = [conc EXCEPT !.started = @ + 1]
    /\ UNCHANGED <<clock, engineVars, retrievalVars, embeddingVars, tr, callVars>>

\* Lines 110-111.
EnsureStep(t) ==
    /\ th[t].pc = "ensure"
    /\ request_history' = Ensure(request_history, th[t].user)
    /\ th' = Goto(t, "dice", <<>>)
    /\ UNCHANGED <<clock, rl, pq, conc, retrievalVars, embeddingVars, tr, callVars>>

\* Lines 114-115: random.random() < 0.1 decides whether the sweep runs.
Dice(t, sweep) ==
    /\ th[t].pc = "dice"
    /\ request_history' = IF sweep THEN cleanup_old_requests(request_history, clock)
                                   ELSE request_history
    /\ th' = Goto(t, "read", <<>>)
    /\ UNCHANGED <<clock, rl, pq, conc, retrievalVars, embeddingVars, tr, callVars>>

\* Lines 118-121, right-hand side: the caller's list is read and filtered.
ReadStep(t) ==
    /\ th[t].pc = "read"
    /\ IF th[t].user \in DOMAIN request_history
       THEN /\ th' = Goto(t, "write", InWindow(request_history[th[t].user], th[t].now))
            /\ UNCHANGED conc
       ELSE Return(t, "KeyError")
    /\ UNCHANGED <<clock, engineVars, retrievalVars, embeddingVars, tr, callVars>>

\* Line 118, the assignment of the filtered list.
WriteStep(t) ==
    /\ th[t].pc = "write"
    /\ request_history' = SetItem(request_history, th[t].user, th[t].kept)
    /\ th' = Goto(t, "check", <<>>)
    /\ UNCHANGED <<clock, rl, pq, conc, retrievalVars, embeddingVars, tr, callVars>>

\* Lines 123-124.
CheckStep(t) ==
    /\ th[t].pc = "check"
    /\ IF th[t].user \notin DOMAIN request_history
       THEN Return(t, "KeyError")
       ELSE IF OverLimit(request_history[th[t].user])
            THEN Return(t, "rejected")
            ELSE th' = Goto(t, "append", <<>>) /\ UNCHANGED conc
    /\ UNCHANGED <<clock, engineVars, retrievalVars, embeddingVars, tr, callVars>>

\* Lines 126-127.
AppendStep(t) ==
    /\ th[t].pc = "append"
    /\ IF th[t].user \in DOMAIN request_history
       THEN /\ request_history' =
                   SetItem(request_history, th[t].user,
                           Append(request_history[th[t].user], th[t].now))
            /\ Return(t, "allowed")
       ELSE /\ Return(t, "KeyError")
            /\ UNCHANGED request_history
    /\ UNCHANGED <<clock, rl, pq, retrievalVars, embeddingVars, tr, callVars>>

NextConc ==
    \/ \E t \in Threads, u \in Users : Begin(t, u)
    \/ \E t \in Threads : EnsureStep(t)
    \/ \E t \in Threads, sweep \in BOOLEAN : Dice(t, sweep)
    \/ \E t \in Threads : ReadStep(t)
    \/ \E t \in Threads : WriteStep(t)
    \/ \E t \in Threads : CheckStep(t)
    \/ \E t \in Threads : AppendStep(t)

SpecConc == Init /\ [][NextConc]_vars

\* ------------------------------------------------------------ indexing
\* str(n) for the ordinals of a run.
Digits == <<"0", "1", "2", "3", "4", "5", "6", "7", "8", "9">>

Str(n) == IF n < 10 THEN <<Digits[n + 1]>>
          ELSE <<Digits[(n \div 10) + 1], Digits[(n % 10) + 1]>>

\* Path(filepath).suffix.lower(): the name from its last dot on.
RECURSIVE LastDot(_, _)
LastDot(name, i) ==
    IF i = 0 THEN 0 ELSE IF name[i] = "." THEN i ELSE LastDot(name, i - 1)

Ext(name) ==
    IF LastDot(name, Len(name)) <= 1 THEN <<>>
    ELSE lower(SubSeq(name, LastDot(name, Len(name)), Len(name)))

\* "row" for a .csv file, "page" for a .pdf file, "none" for a file that
\* is skipped (lines 141, 167, 202-204).
UnitKind(name) ==
    IF Ext(name) = <<".", "c", "s", "v">> THEN <<"r", "o", "w">>
    ELSE IF Ext(name) = <<".", "p", "d", "f">> THEN <<"p", "a", "g", "e">>
    ELSE <<>>

\* The ids of a unit without the unit's ordinal.
doc_id_by_file(name, i) == name \o <<"_">> \o UnitKind(name)

\* f"{name}_row{i}" (line 152) and f"{name}_page{i}" (line 188).
doc_id(name, i) == name \o <<"_">> \o UnitKind(name) \o Str(i)

\* _process_text: the splitter made n chunks of the text; each Document
\* carries the unit's metadata and its position as "chunk".
_process_text(n, metadata) ==
    [c \in 1..n |-> [source |-> metadata.source, unit |-> metadata.unit,
                     ordinal |-> metadata.ordinal, chunk |-> c - 1]]

\* [f"{doc_id}_chunk{j}" for j in range(len(chunked_docs))]
ChunkIds(id, chunked_docs) ==
    [c \in 1..Len(chunked_docs) |->
        id \o <<"_", "c", "h", "u", "n", "k">> \o Str(c - 1)]

\* glob(DATA_DIR/*): two tables, one of them named like an id of the
\* other, a PDF and a file of another type.
Files ==
    << <<"a", ".", "c", "s", "v">>,
       <<"a", ".", "P", "D", "F">>,
       <<"n", ".", "t", "x", "t">>,
       <<"a", ".", "c", "s", "v", "_", "r", "o", "w", "0", ".", "c", "s", "v">> >>

MaxUnits == 2

\* The numbers of chunks the splitter makes of a row or a page.
ChunkCounts == {0, 1, 2}

\* Lines 121-132: the run begins with empty lists.
StartRun ==
    /\ run.pc = "idle"
    /\ run' = RunRecord("file", 1, 0, 0, <<>>, <<>>, <<>>)
    /\ UNCHANGED <<clock, engineVars, retrievalVars, embeddingVars, tr, threadVars, ga, cli>>

\* Lines 134-147, 167-176, 202-204: the next file is skipped (unsupported
\* type, or reading it raises), or its n rows or pages are read.
OpenFile(readable, n) ==
    /\ run.pc = "file"
    /\ run.f <= Len(Files)
    /\ run' = IF UnitKind(Files[run.f]) = <<>> \/ ~readable
              THEN [run EXCEPT !.f = @ + 1]
              ELSE [run EXCEPT !.pc = "unit", !.i = 0, !.n = n]
    /\ UNCHANGED <<clock, engineVars, retrievalVars, embeddingVars, tr, threadVars, ga, cli>>

\* Lines 149-157 and 177-193: row or page i becomes c chunks; docs and ids
\* are extended.
Extended(r, chunked_docs) ==
    [r EXCEPT !.i = @ + 1,
              !.docs = @ \o chunked_docs,
              !.ids = @ \o ChunkIds(doc_id(Files[r.f], r.i), chunked_docs)]

IndexUnit(c) ==
    /\ run.pc = "unit"
    /\ run.i < run.n
    /\ run' = Extended(run, _process_text(c, [source |-> Files[run.f],
                                               unit |-> UnitKind(Files[run.f]),
                                               ordinal |-> run.i]))
    /\ UNCHANGED <<clock, engineVars, retrievalVars, embeddingVars, tr, threadVars, ga, cli>>

\* Lines 178-181: a page without text is skipped.
SkipEmptyPage ==
    /\ run.pc = "unit"
    /\ run.i < run.n
    /\ UnitKind(Files[run.f]) = <<"p", "a", "g", "e">>
    /\ run' = [run EXCEPT !.i = @ + 1]
    /\ UNCHANGED <<clock, engineVars, retrievalVars, embeddingVars, tr, threadVars, ga, cli>>

\* Lines 162-164 and 198-200: row or page i raises before the lists are
\* extended; the rest of the file is abandoned.
UnitFails ==
    /\ run.pc = "unit"
    /\ run.i < run.n
    /\ run' = [run EXCEPT !.pc = "file", !.f = @ + 1]
    /\ UNCHANGED <<clock, engineVars, retrievalVars, embeddingVars, tr, threadVars, ga, cli>>

\* Line 206: the file is complete.
FileDone ==
    /\ run.pc = "unit"
    /\ run.i = run.n
    /\ run' = [run EXCEPT !.pc = "file", !.f = @ + 1]
    /\ UNCHANGED <<clock, engineVars, retrievalVars, embeddingVars, tr, threadVars, ga, cli>>

\* Lines 212-229: the lists go to the vector store in batches.
AddDocuments ==
    /\ run.pc = "file"
    /\ run.f > Len(Files)
    /\ run' = [run EXCEPT !.pc = "done", !.added = run.ids]
    /\ UNCHANGED <<clock, engineVars, retrievalVars, embeddingVars, tr, threadVars, ga, cli>>

NextRun ==
    \/ StartRun
    \/ \E readable \in BOOLEAN, n \in 0..MaxUnits : OpenFile(readable, n)
    \/ \E c \in ChunkCounts : IndexUnit(c)
    \/ SkipEmptyPage
    \/ UnitFails
    \/ FileDone
    \/ AddDocuments

SpecRun == Init /\ [][NextRun]_vars

\* ---------------------------------------------------------- main(), CLI
\* The lines typed at the prompt.
CliLines ==
    <<<<"b", "y", "e">>,
      <<" ", "L", "a", "t", "e", "r", " ">>,
      <<"q">>,
      <<"q", "u", "i", "t">>,
      <<"e", "x", "i", "t">>,
      <<"w", "h", "a", "t", " ", "i", "s", " ", "x">>,
      <<" ", " ">>>>

CLI_USER == "cli_user"

\* Line 217: the welcome is printed and the loop entered.
CliStart ==
    /\ cli.pc = "off"
    /\ cli' = CliRecord("loop", 0, DictGet(RESP, "welcome").val)
    /\ UNCHANGED <<clock, engineVars, retrievalVars, embeddingVars, tr, threadVars, ga, run>>

\* Lines 227-234: answer is what get_answer(q, "cli_user") returned; it is
\* printed, and the loop ends when it is RESP["exit"].
Printed(k, answer) ==
    CliRecord(IF answer = DictGet(RESP, "exit").val THEN "ended" ELSE "loop", k, answer)

\* Lines 224-234 for the stripped line q: an empty line goes back to the
\* prompt; any other line goes to get_answer, whose process_question is p.
Iteration(k, q, p) ==
    IF q = <<>>
    THEN cli' = CliRecord("loop", k, <<>>) /\ UNCHANGED request_history
    ELSE /\ request_history' = p.obs.hist
         /\ cli' = Printed(k, get_answer(FALSE, p).val)

\* One iteration of the loop for the line CliLines[k] (line 220 strips it).
CliLine(k, sweep, ix, llm) ==
    /\ cli.pc = "loop"
    /\ \E q \in {strip(CliLines[k])} :
         Iteration(k, q,
                   process_question(q, strip(lower(sanitize_input(q))),
                                    request_history, CLI_USER, clock, sweep, 1,
                                    ix, ix, AnyProvider, llm))
    /\ UNCHANGED <<clock, rl, pq, retrievalVars, embeddingVars, tr, threadVars, ga, run>>

\* Lines 221-223: end of input or Ctrl-C prints the farewell and leaves
\* the loop.
CliEof ==
    /\ cli.pc = "loop"
    /\ cli' = CliRecord("ended", 0, DictGet(RESP, "exit").val)
    /\ UNCHANGED <<clock, engineVars, retrievalVars, embeddingVars, tr, threadVars, ga, run>>

\* The collaborators a line reaches are drawn; those it does not reach are
\* not.
CliReaches(k) == GoesToRetrieval(Intent(strip(lower(sanitize_input(strip(CliLines[k]))))))

CliLlmOutcomes == {l \in LlmOutcomes : l.fail \/ l.text[1] = "A"}

CliLineRead ==
    \E k \in 1..Len(CliLines), sweep \in BOOLEAN :
      \E ix \in (IF CliReaches(k) THEN IndexStates ELSE {IxDown}) :
        \E llm \in (IF CliReaches(k) /\ get_snippets(ix, TOP_K).val # <<>>
                     THEN CliLlmOutcomes ELSE {AnyLlm}) :
          CliLine(k, sweep, ix, llm)

NextCli ==
    \/ Tick
    \/ CliStart
    \/ CliLineRead
    \/ CliEof

SpecCli == Init /\ [][NextCli]_vars

\* ------------------------------------------- get_answer, step by step
\* get_answer(Questions[i], u) runs up to the generation call: p is what
\* process_question does with a model that answers at once.  A call that
\* does not reach line 190 returns; one that does is inside chain.invoke,
\* which has no timeout and is not run on thread_pool.
AskThrough(i, u, p, hangs) ==
    /\ request_history' = p.obs.hist
    /\ ga' = IF p.obs.nGen = 1
             THEN GaRecord("generating", i, u, hangs, <<>>)
             ELSE GaRecord("returned", i, u, FALSE, get_answer(FALSE, p).val)

Ask(i, u, sweep, ix, hangs) ==
    /\ ga = NoGa
    /\ AskThrough(i, u,
                  process_question(Questions[i], LowerOf[i], request_history, u,
                                   clock, sweep, 1, ix, ix, AnyProvider, AnyLlm),
                  hangs)
    /\ UNCHANGED <<clock, rl, pq, retrievalVars, embeddingVars, tr, threadVars, run, cli>>

\* chain.invoke returns or raises (lines 190-201); get_answer returns.
GenerationEnds(llm) ==
    /\ ga.pc = "generating"
    /\ ~ga.hangs
    /\ ga' = GaRecord("returned", ga.q, ga.user, FALSE, Generate(llm).val)
    /\ UNCHANGED <<clock, engineVars, retrievalVars, embeddingVars, tr, threadVars, run, cli>>

\* The caller takes the answer.
TakeAnswer ==
    /\ ga.pc = "returned"
    /\ ga' = NoGa
    /\ UNCHANGED <<clock, engineVars, retrievalVars, embeddingVars, tr, threadVars, run, cli>>

AskCall ==
    \E i \in 1..Len(Questions), u \in Callers, sweep \in BOOLEAN, ix \in IndexStates :
      \E hangs \in (IF Reaches(i, u, sweep) = "retrieval"
                        /\ get_snippets(ix, TOP_K).val # <<>>
                     THEN BOOLEAN ELSE {FALSE}) :
        Ask(i, u, sweep, ix, hangs)

GenerationReturns == \E llm \in LlmOutcomes : GenerationEnds(llm)

NextLive ==
    \/ Tick
    \/ AskCall
    \/ GenerationReturns
    \/ TakeAnswer

\* A call that can take its next step takes it; the generation call ends
\* when the model completes it.
SpecLive ==
    /\ Init /\ [][NextLive]_vars
    /\ WF_vars(GenerationReturns)
    /\ WF_vars(TakeAnswer)

Next ==
    \/ Tick
    \/ GetAnswerCall
    \/ \E i \in 1..Len(Questions), u \in Callers : GetAnswerInLoop(i, u)
    \/ Deliver

Spec == Init /\ [][Next]_vars

\* ---------------------------------------------------- retrieval service
\* The collection is re-indexed, or starts or stops failing.
Reindex(ix) ==
    /\ gs = NoGs
    /\ ix # index
    /\ index' = ix
    /\ UNCHANGED <<snippets_cache, gs, em>>
    /\ UNCHANGED <<clock, engineVars, embeddingVars, tr, threadVars, callVars>>

\* similarity_search_with_score (lines 276-279) has the vector store embed
\* the question with the embedding model (embedding_function, line 94) on
\* every call; the calls counted are those of an index that answers.
Embeds(ix) == ix.fail = "none" /\ ix.total > 0

\* em counts the embedding model's invocations for the question, up to
\* MaxEmbeds.
MaxEmbeds == 2

\* A call of get_snippets for the question with the arguments of key.
GetSnippets(key) ==
    /\ gs = NoGs
    /\ \E r \in {lru_get_snippets(snippets_cache, index, key)} :
         /\ snippets_cache' = r.cache
         /\ gs' = GsRecord(key, index, r)
         /\ em' = IF ~r.hit /\ Embeds(index) THEN Min2(em + 1, MaxEmbeds) ELSE em
    /\ UNCHANGED index
    /\ UNCHANGED <<clock, engineVars, embeddingVars, tr, threadVars, callVars>>

\* The call returns to its caller.
ReturnSnippets ==
    /\ gs # NoGs
    /\ gs' = NoGs
    /\ UNCHANGED <<index, snippets_cache, em>>
    /\ UNCHANGED <<clock, engineVars, embeddingVars, tr, threadVars, callVars>>

NextIx ==
    \/ \E ix \in IndexContents : Reindex(ix)
    \/ \E key \in SnippetCalls : GetSnippets(key)
    \/ ReturnSnippets

SpecIx == Init /\ [][NextIx]_vars

\* ---------------------------------------------------- embedding cache
\* The cache after cache_embedding was called for the texts 1..n in turn
\* within one clock reading.
Filled(n) == [j \in 1..n |-> [text |-> j, ts |-> 0, vec |-> "v0"]]

FillLevels == {0, MAX_CACHE_SIZE - 1, MAX_CACHE_SIZE}

\* Texts that are in a filled cache and texts that are not.
CacheTexts == {1, MAX_CACHE_SIZE + 1, MAX_CACHE_SIZE + 2}

Vectors == {"v1"}

InitEC ==
    /\ clock = 0
    /\ request_history = << >>
    /\ rl = NoRl
    /\ pq = NoPq
    /\ index = IxEmpty
    /\ snippets_cache = << >>
    /\ gs = NoGs
    /\ \E n \in FillLevels :
         /\ embedding_cache = Filled(n)
         /\ ec = EcRecord(n, <<>>, 0, 0, 0, <<>>, << >>)
    /\ lk = NoLk
    /\ tr = NoTr
    /\ th = [t \in Threads |-> Idle]
    /\ conc = NoConc
    /\ ga = NoGa
    /\ em = 0
    /\ run = NoRun
    /\ cli = NoCli

\* A call cache_embedding(text, vec).
CacheEmbedding(text, vec) ==
    /\ lk = NoLk
    /\ Len(ec.log) < MaxCalls
    /\ embedding_cache' = cache_embedding(embedding_cache, text, clock, vec)
    /\ \E gone \in {Victims(PutItem(embedding_cache, text, clock, vec))} :
         ec' = EcRecord(ec.filled, Append(ec.log, text), text, clock,
                        Len(embedding_cache),
                        SelectSeq(embedding_cache, LAMBDA e : e.text \in gone),
                        SetItem(ec.stored, text, [vec |-> vec, ts |-> clock]))
    /\ UNCHANGED <<clock, engineVars, retrievalVars, lk, tr, threadVars, callVars>>

NextEC ==
    \/ Tick
    \/ \E text \in CacheTexts, vec \in Vectors : CacheEmbedding(text, vec)

SpecEC == InitEC /\ [][NextEC]_vars

\* Almost CACHE_TTL passes without a call.
LongWait ==
    /\ lk = NoLk
    /\ clock < CACHE_TTL - TickSeconds
    /\ clock' = clock + CACHE_TTL - TickSeconds
    /\ UNCHANGED <<engineVars, retrievalVars, embeddingVars, tr, threadVars, callVars>>

\* A call get_cached_embedding(text).
GetCachedEmbedding(text) ==
    /\ lk = NoLk
    /\ \E r \in {get_cached_embedding(embedding_cache, text, clock)} :
         /\ embedding_cache' = r.cache
         /\ lk' = LkRecord(text, clock, r, embedding_cache)
    /\ UNCHANGED <<clock, engineVars, retrievalVars, ec, tr, threadVars, callVars>>

\* The lookup returns to its caller.
ReturnLookup ==
    /\ lk # NoLk
    /\ lk' = NoLk
    /\ UNCHANGED <<clock, engineVars, retrievalVars, embedding_cache, ec, tr, threadVars, callVars>>

LookupTexts == {1, 2}

LookupVectors == {"v1", "v2"}

NextTTL ==
    \/ Tick
    \/ LongWait
    \/ \E text \in LookupTexts, vec \in LookupVectors : CacheEmbedding(text, vec)
    \/ \E text \in LookupTexts : GetCachedEmbedding(text)
    \/ ReturnLookup

SpecTTL == Init /\ [][NextTTL]_vars

\* ------------------------------------------------------- post-processor
\* The texts truncate_to_two_sentences is called with: every text of up to
\* MaxTextLen characters over a letter, two sentence ends and two kinds of
\* whitespace, and two longer ones.
TextAlphabet == {"A", ".", "!", " ", "\n"}

ThreeSentences == <<"A", ".", " ", "B", ".", " ", "C", ".">>

Texts ==
    UNION {[1..n -> TextAlphabet] : n \in 0..MaxTextLen}
      \cup {ThreeSentences, <<"A", "?", "\t", "B", ".", "C", " ", " ", "D">>}

\* A call truncate_to_two_sentences(text).  functools.lru_cache returns for a
\* repeated text the value computed for it before, which for a function of
\* its argument alone is the value computed now.
Truncate(text) ==
    /\ tr = NoTr
    /\ tr' = [text |-> text, out |-> truncate_to_two_sentences(text), called |-> TRUE]
    /\ UNCHANGED <<clock, engineVars, retrievalVars, embeddingVars, threadVars, callVars>>

\* The call returns to its caller.
ReturnText ==
    /\ tr # NoTr
    /\ tr' = NoTr
    /\ UNCHANGED <<clock, engineVars, retrievalVars, embeddingVars, threadVars, callVars>>

NextText == (\E text \in Texts : Truncate(text)) \/ ReturnText

SpecText == Init /\ [][NextText]_vars

\* ------------------------------------------------------------------- claims
\* The number of occurrences of t in the list.
Count(history, t) == Cardinality({j \in 1..Len(history) : history[j] = t})

\* The caller's list in request_history, [] when the caller has none.
HistoryOf(u) == IF u \in DOMAIN request_history THEN request_history[u] ELSE <<>>

Called == pq.q # 0

CannedIntents == {"Farewell", "Decline", "Affirmative", "Gratitude", "Greeting"}

\* C1: get_answer(question, user_id) returns a string and never raises,
\* whatever the question, the user and the failures of the index, the web
\* search provider and the generation model.
C1_GetAnswerNeverRaises ==
    Called => pq.raised = "none" /\ pq.answer \in Seq(STRING)

\* A call whose body raised: the exception was contained and the error
\* response returned.
C1_Witness ==
    /\ Called /\ pq.ran
    /\ pq.caught = "KeyError"
    /\ pq.raised = "none"
    /\ pq.answer = RESP.error

\* C2: a burst from an empty history: while fewer than RATE_LIMIT calls of
\* the burst are recorded the call is allowed, the call after RATE_LIMIT
\* recorded ones is rejected, and a call made when every recorded timestamp
\* is 60 seconds old or older is allowed, whether or not the sweep fires.
C2_Burst ==
    rl.user # "none" =>
      LET burst == \A j \in 1..Len(rl.before) : rl.now - rl.before[j] <= 1
          expired == \A j \in 1..Len(rl.before) : rl.now - rl.before[j] >= WINDOW
      IN  /\ burst /\ Len(rl.before) < RATE_LIMIT => rl.outcome = "allowed"
          /\ burst /\ Len(rl.before) = RATE_LIMIT => rl.outcome = "rejected"
          /\ expired => rl.outcome = "allowed"

\* C3: is_rate_limited rejects exactly when RATE_LIMIT or more of the user's
\* timestamps are younger than 60 seconds; a rejected call leaves no
\* timestamp in the user's list that was not there before; an allowed call
\* appends exactly one timestamp, the current time.
C3_Decision ==
    rl.user # "none" =>
      LET after == HistoryOf(rl.user)
          stamps == {rl.before[j] : j \in 1..Len(rl.before)}
                      \cup {after[j] : j \in 1..Len(after)}
      IN  /\ rl.outcome = "rejected" <=> Len(InWindow(rl.before, rl.now)) >= RATE_LIMIT
          /\ rl.outcome = "rejected" =>
               \A t \in stamps : Count(after, t) <= Count(rl.before, t)
          /\ rl.outcome = "allowed" =>
               /\ after # <<>> /\ after[Len(after)] = rl.now
               /\ \A t \in stamps :
                    Count(after, t) <= Count(rl.before, t) + (IF t = rl.now THEN 1 ELSE 0)
               /\ \A t \in stamps :
                    rl.now - t < WINDOW =>
                      Count(after, t) = Count(rl.before, t) + (IF t = rl.now THEN 1 ELSE 0)

\* A rejected call right after RATE_LIMIT allowed ones, and the list as it was.
C3_Witness ==
    /\ rl.outcome = "rejected"
    /\ Len(rl.before) = RATE_LIMIT
    /\ HistoryOf(rl.user) = rl.before

\* A word of the question ends where the text ends or a non-word character follows.
WordChars == {LowerChars[j] : j \in 1..Len(LowerChars)}
                \cup {"0", "1", "2", "3", "4", "5", "6", "7", "8", "9", "_"}

BeginsWithInterrogative(low) ==
    \E w \in INTERROGATIVES :
      /\ StartsWith(low, w)
      /\ Len(low) = Len(w) \/ low[Len(w) + 1] \notin WordChars

Interrogative == [i \in 1..Len(Questions) |-> BeginsWithInterrogative(LowerOf[i])]

\* The responses of the five non-retrieval branches.
CannedReplies ==
    {RESP.exit, RESP.affirm, YOURE_WELCOME, RESP.greeting[1], RESP.greeting[2]}

\* C4: a question whose sanitised, lower-cased, trimmed text begins with
\* who, what, where, when, why or how goes to retrieval and gets no canned
\* reply, whatever other token it contains.
C4_InterrogativeIsFactual ==
    Called /\ pq.ran /\ pq.obs.rlOutcome = "allowed" /\ Interrogative[pq.q] =>
      /\ pq.obs.nRetrieve >= 1
      /\ pq.answer \notin CannedReplies

\* C5: each of the five non-retrieval intents gets its own canned response,
\* never the error or unknown response or another intent's response.
C5_OwnCannedResponse ==
    Called /\ pq.ran /\ pq.obs.intent \in CannedIntents =>
      /\ pq.answer \notin {RESP.error, RESP.unknown}
      /\ pq.obs.intent = "Farewell" => pq.answer = RESP.exit
      /\ pq.obs.intent = "Affirmative" => pq.answer = RESP.affirm
      /\ pq.obs.intent = "Gratitude" => pq.answer = YOURE_WELCOME
      /\ pq.obs.intent = "Greeting" => pq.answer \in {RESP.greeting[1], RESP.greeting[2]}
      /\ pq.obs.intent = "Decline" => pq.answer \notin CannedReplies

\* C6: a call whose question takes the Farewell, Decline, Affirmative,
\* Gratitude or Greeting branch calls neither the retriever nor the web
\* search nor the generation model.
C6_FastPath ==
    Called /\ pq.ran /\ pq.obs.intent \in CannedIntents =>
      pq.obs.nRetrieve = 0 /\ pq.obs.nWeb = 0 /\ pq.obs.nGen = 0

\* The question "hello" answered with a greeting and no collaborator called.
C6_Witness ==
    /\ Called /\ pq.ran
    /\ Questions[pq.q] = <<"h", "e", "l", "l", "o">>
    /\ pq.obs.intent = "Greeting"
    /\ pq.answer = RESP.greeting[2]
    /\ pq.obs.nRetrieve = 0 /\ pq.obs.nWeb = 0 /\ pq.obs.nGen = 0

\* sanitize rejects: nothing is left after removing < and > and trimming, or
\* the question is longer than MAX_QUESTION_LEN.
SanitizeRejects ==
    [i \in 1..Len(Questions) |->
        sanitize_input(Questions[i]) = <<>> \/ Len(Questions[i]) > MAX_QUESTION_LEN]

\* C7: a question that sanitize rejects gets the invalid-input response, no
\* timestamp is recorded for it, and retrieval and generation are not called.
C7_InvalidInput ==
    Called /\ pq.ran /\ SanitizeRejects[pq.q] =>
      /\ pq.answer = RESP.invalid_input
      /\ pq.historyUnchanged
      /\ pq.obs.nRetrieve = 0 /\ pq.obs.nGen = 0

\* C8 as stated: once RATE_LIMIT of the user's timestamps are inside the
\* window, every further question of the user gets the rate-limit response
\* and is neither classified nor taken to retrieval or generation.
C8_EveryQuestionLimited ==
    Called /\ pq.ran /\ pq.inWindowBefore >= RATE_LIMIT =>
      /\ pq.answer = RESP.rate_limit
      /\ pq.obs.intent = "none"
      /\ pq.obs.nRetrieve = 0 /\ pq.obs.nWeb = 0 /\ pq.obs.nGen = 0

\* C8 as amended: once RATE_LIMIT of the user's timestamps are inside the
\* window, every further question of 1 to MAX_QUESTION_LEN characters gets
\* the rate-limit response, whatever its content, and is neither classified
\* nor taken to retrieval or generation.
C8_ValidQuestionLimited ==
    /\ Called /\ pq.ran /\ pq.inWindowBefore >= RATE_LIMIT
    /\ Questions[pq.q] # <<>> /\ Len(Questions[pq.q]) <= MAX_QUESTION_LEN
    =>
      /\ pq.answer = RESP.rate_limit
      /\ pq.obs.intent = "none"
      /\ pq.obs.nRetrieve = 0 /\ pq.obs.nWeb = 0 /\ pq.obs.nGen = 0
      /\ pq.historyUnchanged \/ pq.obs.rlOutcome = "rejected"

\* A factual question asked by a user at the limit, answered with the
\* rate-limit response.
C8_Witness ==
    /\ Called /\ pq.ran /\ pq.inWindowBefore >= RATE_LIMIT
    /\ Questions[pq.q] = <<"w", "h", "a", "t", " ", "i", "s", " ", "x">>
    /\ pq.answer = RESP.rate_limit

\* The reply that lists the web results under the disclaimer.
WebReply(results) ==
    NOT_IN_MY_DATA
      \o Join(<<"\n", "\n">>,
              <<NOT_IN_LOCAL_DATA>> \o [j \in 1..Len(results) |-> RenderResult(results[j])])

\* C9: when retrieval returns nothing the web fallback is invoked; its
\* results are returned as a listing whenever there is at least one, and the
\* unknown response is returned only when there is none.
C9_FallbackRendering ==
    Called /\ pq.ran /\ pq.obs.fellBack =>
      /\ pq.obs.nWeb = 1
      /\ pq.obs.webResults # <<>> => pq.answer = WebReply(pq.obs.webResults)
      /\ pq.answer = RESP.unknown => pq.obs.webResults = <<>>

\* C10: search_web returns [] and does not raise on a network error, an
\* HTTP error status or a malformed response, and when retrieval was empty
\* and the fallback failed process_question returns the unknown response,
\* not the error response.
C10_FallbackContained ==
    /\ \A provider \in Providers :
         /\ search_web(provider).exc = "none"
         /\ provider.kind # "page" => search_web(provider).val = <<>>
    /\ Called /\ pq.ran /\ pq.obs.webFailure # "none" =>
         /\ pq.obs.webResults = <<>>
         /\ pq.caught = "none"
         /\ pq.answer = RESP.unknown

\* Retrieval found nothing, the provider answered with an HTTP error status
\* and the caller got the unknown response.
C10_Witness ==
    /\ Called /\ pq.ran /\ pq.obs.fellBack
    /\ pq.obs.nWeb = 1
    /\ pq.obs.webFailure = "http_error"
    /\ pq.answer = RESP.unknown

\* C11: an index query failure inside get_snippets is recovered as an empty
\* retrieval result: the call goes on to the fallback (and to the web search
\* when the repeated local search is empty too) and never ends with the
\* error response.  A failure of the generation call after a non-empty
\* retrieval ends with exactly the error response.
C11_FailureMapping ==
    Called /\ pq.ran =>
      /\ pq.obs.ix1Failed =>
           /\ pq.obs.docs1 = <<>> /\ pq.obs.fellBack
           /\ pq.obs.docs2 = <<>> => pq.obs.nWeb = 1
           /\ pq.caught = "none"
           /\ pq.answer # RESP.error
      /\ pq.obs.genFailed =>
           /\ pq.obs.docs1 # <<>> /\ pq.obs.nGen = 1
           /\ pq.answer = RESP.error

\* The index query failed, the web search found nothing either and the
\* caller got the unknown response.
C11_Witness ==
    /\ Called /\ pq.ran
    /\ pq.obs.ix1Failed /\ pq.obs.fellBack
    /\ pq.obs.nWeb = 1 /\ pq.obs.webResults = <<>>
    /\ pq.answer = RESP.unknown

\* The candidates the index returns for k, and those of them at or above
\* MIN_SCORE.
Candidates(ix, k) ==
    SubSeq(ix.ranked, 1, Min2(Min2(k, ix.total), Len(ix.ranked)))

Retained(ix, k) == SelectSeq(Candidates(ix, k), LAMBDA c : c.score >= MIN_SCORE)

DocsOf(cands) == [j \in 1..Len(cands) |-> cands[j].doc]

\* A get_snippets call that ran its body against a working index.
Queried == gs # NoGs /\ ~gs.hit /\ gs.ix.fail = "none"

\* C12: get_snippets(question, k) asks the index for k_eff = min(k, total)
\* candidates and returns exactly the candidates whose score is >= MIN_SCORE,
\* in the index's order, at most k_eff of them: none below MIN_SCORE is
\* returned and none at or above it is dropped.
C12_Filtering ==
    Queried =>
      /\ Len(Candidates(gs.ix, gs.k)) <= Min2(gs.k, gs.ix.total)
      /\ Len(gs.result) <= Min2(gs.k, gs.ix.total)
      /\ gs.result = DocsOf(Retained(gs.ix, gs.k))

\* get_snippets(q, 5) against five candidates of which two are below
\* MIN_SCORE: three chunks come back.
C12_Witness ==
    /\ Queried
    /\ gs.k = 5 /\ gs.ix = IxFive
    /\ Len(gs.result) = 3

\* C13: the sequence get_snippets returns never holds two chunks with the
\* same content.
C13_NoDuplicateContent ==
    gs # NoGs =>
      \A i, j \in 1..Len(gs.result) :
        i # j => gs.result[i].page_content # gs.result[j].page_content

\* cands sorted by descending score, equal scores in their original order.
RECURSIVE InsertDesc(_, _)
InsertDesc(sorted, c) ==
    IF sorted = <<>> THEN <<c>>
    ELSE IF Head(sorted).score >= c.score
         THEN <<Head(sorted)>> \o InsertDesc(Tail(sorted), c)
         ELSE <<c>> \o sorted

RECURSIVE SortDesc(_)
SortDesc(cands) ==
    IF cands = <<>> THEN <<>>
    ELSE InsertDesc(SortDesc(SubSeq(cands, 1, Len(cands) - 1)), cands[Len(cands)])

\* C14: the chunks retained by the score filter are returned in
\* descending-score order; of candidates scored 90, 70, 64, 50, 80 the
\* chunks scored 90, 80, 70 are returned in that order.
C14_DescendingScore ==
    Queried => gs.result = DocsOf(SortDesc(Retained(gs.ix, gs.k)))

\* C15: whatever calls, index changes and index failures came before, the
\* value get_snippets returns is the value an uncached query of the index
\* as it is now returns.
C15_CacheTransparent ==
    gs # NoGs => gs.result = get_snippets(gs.ix, gs.k).val

\* A call that got text from the generation model.
Generated == Called /\ pq.ran /\ pq.obs.nGen = 1 /\ ~pq.obs.genFailed

SaysUnknown(text) ==
    \E pre \in IGNORANCE_PREFIXES : StartsWith(lower(text), pre)

\* C16: when the trimmed, lower-cased model output begins with "i'm sorry",
\* "i don't know" or "i dont know" the answer is the unknown response;
\* otherwise it is the truncation of the trimmed output.  An answer made from
\* model text has at most two sentences and begins with none of the prefixes.
C16_PostProcessing ==
    Generated =>
      /\ SaysUnknown(strip(pq.obs.genOut)) => pq.answer = RESP.unknown
      /\ ~SaysUnknown(strip(pq.obs.genOut)) =>
           /\ pq.answer = truncate_to_two_sentences(strip(pq.obs.genOut))
           /\ Len(SplitSentences(pq.answer)) <= 2
           /\ ~SaysUnknown(pq.answer)

\* The model wrote three sentences and the caller got the first two.
C16_Witness ==
    /\ Generated
    /\ pq.obs.genOut = <<"A", ".", " ", "B", ".", " ", "C", ".">>
    /\ pq.answer = <<"A", ".", " ", "B", ".">>

\* The characters of a text that are not whitespace, in order.
NonWs(text) == SelectSeq(text, LAMBDA c : c \notin Whitespace)

HasSentenceEnd(text) == \E j \in 1..Len(text) : text[j] \in SentenceEnd

\* The positions of a text where whitespace follows a sentence end directly.
Breaks(text) ==
    {j \in 2..Len(text) : text[j] \in Whitespace /\ text[j - 1] \in SentenceEnd}

\* The text up to its second sentence, when it has more than two.
UpToSecondBreak(text) ==
    IF Cardinality(Breaks(text)) < 2 THEN text
    ELSE SubSeq(text, 1, SetMin(Breaks(text) \ {SetMin(Breaks(text))}) - 1)

\* C17 as stated: the text is split at every . ? ! that whitespace follows
\* and the first two sentences are returned joined; 'A. B. C.' gives
\* 'A. B.'; a text without . ? ! is returned unchanged.
C17_ReturnedUnchanged ==
    tr.called =>
      /\ tr.text = ThreeSentences => tr.out = <<"A", ".", " ", "B", ".">>
      /\ NonWs(tr.out) = NonWs(UpToSecondBreak(strip(tr.text)))
      /\ ~HasSentenceEnd(tr.text) => tr.out = tr.text

\* C17 as amended: the trimmed text is split at every . ? ! that whitespace
\* follows and the first two sentences are returned joined by one space,
\* trimmed; 'A. B. C.' gives 'A. B.'; a text without . ? ! is returned with
\* its leading and trailing whitespace removed and otherwise unchanged.
C17_Truncation ==
    tr.called =>
      /\ tr.text = ThreeSentences => tr.out = <<"A", ".", " ", "B", ".">>
      /\ NonWs(tr.out) = NonWs(UpToSecondBreak(strip(tr.text)))
      /\ Cardinality(Breaks(tr.out)) <= 1
      /\ tr.out = strip(tr.out)
      /\ ~HasSentenceEnd(tr.text) => tr.out = strip(tr.text)
      /\ ~HasSentenceEnd(tr.text) /\ strip(tr.text) = tr.text => tr.out = tr.text

\* 'A. B. C.' was truncated to 'A. B.'.
C17_Witness ==
    /\ tr.called
    /\ tr.text = ThreeSentences
    /\ tr.out = <<"A", ".", " ", "B", ".">>

\* The questions of the case of C18: no interrogative at the start, not a
\* farewell, decline or affirmative, no gratitude token, and a greeting token
\* somewhere in the text.
GreetingInside ==
    [i \in 1..Len(Questions) |->
        /\ ~Interrogative[i]
        /\ LowerOf[i] \notin BYES \cup DECLINES \cup AFFIRMATIVES
        /\ ~\E g \in GRATITUDES : Contains(LowerOf[i], g)
        /\ \E g \in GREETINGS : Contains(LowerOf[i], g)]

\* C18: such a question is classified Greeting and answered with a member
\* of the greeting reply set without retrieval; 'hi there' is one.
C18_GreetingBySubstring ==
    Called /\ pq.ran /\ pq.obs.rlOutcome = "allowed" /\ GreetingInside[pq.q] =>
      /\ pq.obs.intent = "Greeting"
      /\ pq.answer \in {RESP.greeting[1], RESP.greeting[2]}
      /\ pq.obs.nRetrieve = 0

\* The gratitude tokens the classification is said to use.
StatedGratitudes ==
    {<<"t", "h", "a", "n", "k", "s">>,
     <<"t", "h", "a", "n", "k", " ", "y", "o", "u">>,
     <<"t", "h", "x">>,
     <<"t", "h", "a", "n", "k", " ", "u">>,
     <<"t", "y">>}

\* The intents the stated priority order allows for a text; the greeting
\* step is left to C18.
StatedIntents(low) ==
    IF low \in BYES THEN {"Farewell"}
    ELSE IF low \in DECLINES THEN {"Decline"}
    ELSE IF \E g \in StatedGratitudes : Contains(low, g) THEN {"Gratitude"}
    ELSE IF low \in AFFIRMATIVES THEN {"Affirmative"}
    ELSE {"Greeting", "Generic"}

StatedIntentsOf == [i \in 1..Len(Questions) |-> StatedIntents(LowerOf[i])]

\* C19: the intent of a non-interrogative question is the first match in
\* the order Farewell, Decline, Gratitude (a token of thanks, thank you, thx,
\* thank u, ty inside the text, and no other token), Affirmative, Greeting,
\* Generic; 'thanks, bye' is Gratitude.
C19_Priority ==
    Called /\ pq.ran /\ pq.obs.rlOutcome = "allowed" /\ ~Interrogative[pq.q] =>
      /\ pq.obs.intent \in StatedIntentsOf[pq.q]
      /\ LowerOf[pq.q] = <<"t", "h", "a", "n", "k", "s", ",", " ", "b", "y", "e">>
           => pq.obs.intent = "Gratitude"

\* The texts given to cache_embedding so far, the filling included, and
\* whether they are all different.
InsertedTexts == [j \in 1..ec.filled |-> j] \o ec.log

AllDifferent ==
    /\ \A j \in 1..Len(ec.log) : ec.log[j] > ec.filled
    /\ \A i, j \in 1..Len(ec.log) : i # j => ec.log[i] # ec.log[j]

LastOf(texts, n) ==
    IF Len(texts) <= n THEN texts ELSE SubSeq(texts, Len(texts) - n + 1, Len(texts))

CacheEmbeddingDone == Len(ec.log) > 0

\* C20: after every cache_embedding call the cache holds at most
\* MAX_CACHE_SIZE entries and the text of the call is in it with the time of
\* the call; entries are deleted only when there are more than MAX_CACHE_SIZE,
\* exactly as many as are too many, and none of them is younger than an entry
\* that stays; after N > MAX_CACHE_SIZE different texts the cache holds
\* exactly the MAX_CACHE_SIZE texts inserted last.
C20_SizeBound ==
    CacheEmbeddingDone =>
      /\ Len(embedding_cache) <= MAX_CACHE_SIZE
      /\ Len(SelectSeq(embedding_cache,
                       LAMBDA e : e.text = ec.text /\ e.ts = ec.now)) = 1
      /\ Len(SelectSeq(embedding_cache, LAMBDA e : e.text = ec.text)) = 1
      /\ Len(embedding_cache) + Len(ec.evicted) \in {ec.lenBefore, ec.lenBefore + 1}
      /\ ec.evicted # <<>> => Len(embedding_cache) = MAX_CACHE_SIZE
      /\ \A j \in 1..Len(ec.evicted) :
           \A t \in TimestampsOf(embedding_cache) : ec.evicted[j].ts <= t
      /\ AllDifferent =>
           [j \in 1..Len(embedding_cache) |-> embedding_cache[j].text]
             = LastOf(InsertedTexts, MAX_CACHE_SIZE)

\* One text more than the cache holds: the oldest entry is gone, the new
\* one is the last of MAX_CACHE_SIZE.
C20_Witness ==
    /\ CacheEmbeddingDone
    /\ AllDifferent
    /\ Len(InsertedTexts) = MAX_CACHE_SIZE + 1
    /\ Len(embedding_cache) = MAX_CACHE_SIZE
    /\ embedding_cache[MAX_CACHE_SIZE].text = ec.text
    /\ Len(ec.evicted) = 1 /\ ec.evicted[1].text = 1

\* The latest cache_embedding call for the text of the lookup, if any.
StoredFor(text) == IF text \in DOMAIN ec.stored THEN {ec.stored[text]} ELSE {}

\* C21: get_cached_embedding(text) returns a vector only if an entry for
\* text exists and less than CACHE_TTL seconds have passed since it was
\* stored, and then the vector stored last for the text; a lookup that finds
\* an expired entry returns None and deletes that entry and no other; every
\* other lookup leaves the cache as it was.
C21_Expiry ==
    lk.called =>
      LET mine == SelectSeq(lk.before, LAMBDA e : e.text = lk.text)
      IN  /\ lk.hit <=> (mine # <<>> /\ lk.now - mine[1].ts < CACHE_TTL)
          /\ lk.hit =>
               /\ \E st \in StoredFor(lk.text) :
                    lk.vec = st.vec /\ lk.now - st.ts < CACHE_TTL
               /\ embedding_cache = lk.before
          /\ ~lk.hit =>
               /\ lk.vec = "None"
               /\ embedding_cache = SelectSeq(lk.before, LAMBDA e : e.text # lk.text)
          /\ mine = <<>> => embedding_cache = lk.before

\* A lookup exactly CACHE_TTL after the text was stored: None is returned,
\* the entry is gone and the other entry is still there.
C21_Witness ==
    /\ lk.called /\ ~lk.hit
    /\ \E j \in 1..Len(lk.before) :
         lk.before[j].text = lk.text /\ lk.now - lk.before[j].ts = CACHE_TTL
    /\ Len(lk.before) = 2
    /\ Len(embedding_cache) = 1 /\ embedding_cache[1].text # lk.text


\* C22: the opportunistic sweep is transparent to the call that triggers it:
\* is_rate_limited gives the outcome, and leaves the caller the in-window
\* history, that the same call gives when the sweep does not fire, for a
\* caller with no history, with expired timestamps only, or with recent ones.
C22_SweepTransparent ==
    rl.user # "none" =>
      \E plain \in {is_rate_limited(IF rl.known
                                     THEN SetItem(<< >>, rl.user, rl.before)
                                     ELSE << >>,
                                     rl.user, rl.now, FALSE)} :
        /\ rl.outcome = plain.outcome
        /\ InWindow(HistoryOf(rl.user), rl.now) = InWindow(plain.hist[rl.user], rl.now)

\* The calls of user u that were allowed at a time t - WINDOW < t' <= t.
GrantedInWindow(u, t) ==
    {j \in 1..Len(conc.granted[u]) :
        conc.granted[u][j] <= t /\ t - conc.granted[u][j] < WINDOW}

\* C23: with the steps of concurrent is_rate_limited calls interleaved, no
\* call ends with an exception, no more than RATE_LIMIT calls of one user
\* are allowed inside a 60-second window, and the timestamp of every allowed
\* call that is still inside the window is in the user's history.
C23_ConcurrentSafe ==
    /\ ~conc.failed
    /\ \A u \in Users :
         /\ \A j \in 1..Len(conc.granted[u]) :
              Cardinality(GrantedInWindow(u, conc.granted[u][j])) <= RATE_LIMIT
         /\ Cardinality(GrantedInWindow(u, clock)) <= Len(InWindow(HistoryOf(u), clock))

\* C24: every get_answer call that reaches the generation call returns,
\* whether or not the generation model ever completes the call.
C24_EveryCallReturns == (ga.pc = "generating") ~> (ga.pc = "returned")

\* C25: retrievals of one question within the TTL invoke the embedding
\* model at most once, and a retrieval that invoked it has stored the
\* embedding in the embedding cache.
C25_EmbeddedOnce ==
    clock < CACHE_TTL =>
      /\ em <= 1
      /\ em > 0 => embedding_cache # <<>>

\* The identifier the format '{source}_{unit}{ordinal}_chunk{j}' gives a
\* chunk.
StatedId(d) ==
    d.source \o <<"_">> \o d.unit \o Str(d.ordinal)
             \o <<"_", "c", "h", "u", "n", "k">> \o Str(d.chunk)

\* C26: throughout a run of _index_documents docs and ids have the same
\* length, the id at each position is '{source}_{row or page ordinal}_chunk{j}'
\* with j the "chunk" index of the document at that position, and no id
\* occurs twice.
C26_ChunkIds ==
    /\ Len(run.docs) = Len(run.ids)
    /\ \A p \in 1..Len(run.ids) : run.ids[p] = StatedId(run.docs[p])
    /\ \A p, q \in 1..Len(run.ids) : run.ids[p] = run.ids[q] => p = q

\* A run that skipped an empty page, lost a file part-way and indexed
\* units of two files has ended.
C26_Witness ==
    /\ run.pc = "done"
    /\ Len(run.added) >= 4
    /\ \E p \in 1..Len(run.docs) :
         run.docs[p].unit = <<"p", "a", "g", "e">> /\ run.docs[p].ordinal = 1
    /\ ~ \E p \in 1..Len(run.docs) :
         run.docs[p].unit = <<"p", "a", "g", "e">> /\ run.docs[p].ordinal = 0
    /\ \E p \in 1..Len(run.docs) :
         run.docs[p].source = Files[1] /\ run.docs[p].chunk = 1
    /\ ~ \E p \in 1..Len(run.docs) :
         run.docs[p].source = Files[1] /\ run.docs[p].ordinal = 1

\* The timestamps of user u in dict h that are younger than 60 seconds at
\* time now.
RecentOf(h, u, now) ==
    IF u \in DOMAIN h THEN SelectSeq(h[u], LAMBDA t : now - t < 60) ELSE <<>>

\* After a completed call the caller's history holds only timestamps
\* younger than 60 seconds, in non-decreasing order, and no history holds
\* more than RATE_LIMIT timestamps.
LogInvariant ==
    /\ \A u \in DOMAIN request_history : Len(request_history[u]) <= RATE_LIMIT
    /\ rl.outcome \in {"allowed", "rejected"} =>
         /\ rl.user \in DOMAIN request_history
         /\ \A j \in 1..Len(request_history[rl.user]) :
              /\ rl.now - request_history[rl.user][j] < 60
              /\ j > 1 => request_history[rl.user][j - 1] <= request_history[rl.user][j]

\* A call (a step that leaves the clock alone) changes no in-window
\* timestamp of a user other than the caller.
OthersKept ==
    clock' = clock =>
      \A v \in Users \ {rl'.user} :
        RecentOf(request_history', v, clock) = RecentOf(request_history, v, clock)

\* C27: in sequential execution, after every completed is_rate_limited call
\* each history holds at most RATE_LIMIT timestamps, the caller's history
\* holds only timestamps younger than 60 seconds in non-decreasing order,
\* and the call neither adds nor removes an in-window timestamp of another
\* user.
C27_LogInvariant == [] LogInvariant /\ [][OthersKept]_vars

\* A call with the sweep has filled the caller's history to RATE_LIMIT
\* after dropping an expired timestamp, while the other user has a history.
C27_Witness ==
    /\ rl.user = "u1" /\ rl.sweep /\ rl.outcome = "allowed"
    /\ Len(HistoryOf("u1")) = RATE_LIMIT
    /\ \E j \in 1..Len(rl.before) : rl.now - rl.before[j] >= 60
    /\ \E j \in 1..Len(HistoryOf("u2")) : HistoryOf("u2")[j] < rl.now

\* The farewell set of the command line: the farewells and the synonyms
\* q, quit, exit.
StatedFarewells ==
    {<<"b", "y", "e">>, <<"g", "o", "o", "d", "b", "y", "e">>,
     <<"s", "e", "e", " ", "y", "a">>, <<"l", "a", "t", "e", "r">>,
     <<"q">>, <<"q", "u", "i", "t">>, <<"e", "x", "i", "t">>}

\* C28: every line of the farewell set typed at the prompt of main() is
\* answered with the farewell response and ends the loop, whatever was
\* typed before.
C28_FarewellEndsLoop ==
    (cli.line # 0 /\ lower(strip(CliLines[cli.line])) \in StatedFarewells) =>
      /\ cli.answer = <<"[RESP.exit]">>
      /\ cli.pc = "ended"

====
